---- MODULE Spec2Model ----
(***************************************************************************)
(* The research workflow of agent.py and of its variant research_agent.py: *)
(* one Streamlit session, its session_state, the uploaded document, the    *)
(* start handler and run_research suspended at each Runner.run await.      *)
(***************************************************************************)
EXTENDS Integers, Sequences, FiniteSets, TLC

\* ------------------------------------------------------------------------
\* Bounds
\* ------------------------------------------------------------------------
MaxRuns == 2
MaxFacts == 2

\* ------------------------------------------------------------------------
\* Python values
\* ------------------------------------------------------------------------
None == [type |-> "NoneType"]

Str(s) == [type |-> "str", val |-> s]

Exception == [type |-> "Exception"]

\* bool(x): None, "" and [] are false, every other object is true
Truthy(x) ==
    IF x.type = "NoneType" THEN FALSE
    ELSE IF x.type = "str" THEN x.val # ""
    ELSE TRUE

\* hasattr(obj, name)
hasattr(obj, name) == name \in DOMAIN obj

\* ------------------------------------------------------------------------
\* The two scripts
\* ------------------------------------------------------------------------
Variants == {"agent", "research_agent"}

\* ------------------------------------------------------------------------
\* Uploaded files.  name_ext is the file-name extension the uploader widget
\* filters on, mime is the media type the browser declared (uploaded_file.type),
\* is_pdf says whether PyPDF2 can open the bytes, pages is what it finds (a
\* page is its text or a failing extraction), decoded is the UTF-8 decoding
\* of the bytes (None: the bytes are not valid UTF-8).
\* ------------------------------------------------------------------------
PageFails == "<page extraction fails>"

AcceptedExtensions == {"pdf", "txt"}

Files ==
    { [type |-> "UploadedFile", name_ext |-> "pdf", mime |-> "application/pdf",
       is_pdf |-> TRUE, pages |-> <<"a", "b">>, decoded |-> None],
      [type |-> "UploadedFile", name_ext |-> "pdf", mime |-> "application/pdf",
       is_pdf |-> TRUE, pages |-> <<"a", PageFails>>, decoded |-> None],
      [type |-> "UploadedFile", name_ext |-> "pdf", mime |-> "application/pdf",
       is_pdf |-> TRUE, pages |-> <<"">>, decoded |-> None],
      [type |-> "UploadedFile", name_ext |-> "txt", mime |-> "text/plain",
       is_pdf |-> FALSE, pages |-> <<>>, decoded |-> Str("t")],
      [type |-> "UploadedFile", name_ext |-> "txt", mime |-> "text/plain",
       is_pdf |-> FALSE, pages |-> <<>>, decoded |-> None],
      [type |-> "UploadedFile", name_ext |-> "txt", mime |-> "application/octet-stream",
       is_pdf |-> FALSE, pages |-> <<>>, decoded |-> Str("t")],
      [type |-> "UploadedFile", name_ext |-> "md", mime |-> "text/markdown",
       is_pdf |-> FALSE, pages |-> <<>>, decoded |-> Str("t")] }

Topics == {"", "quantum computing"}

\* ------------------------------------------------------------------------
\* UTILITY FUNCTIONS
\* ------------------------------------------------------------------------
RECURSIVE ExtractPages(_, _, _)
RECURSIVE ExtractPagesKeepingPartialText(_, _, _)
\* a loader that returns the text of the pages before the failing one
ExtractPagesKeepingPartialText(pages, i, text) ==
    IF i > Len(pages) THEN Str(text)
    ELSE IF pages[i] = PageFails THEN Str(text)
    ELSE ExtractPagesKeepingPartialText(pages, i + 1, text \o pages[i])

\* the loop over pdf_reader.pages: text += page.extract_text()
ExtractPages(pages, i, text) ==
    IF i > Len(pages) THEN Str(text)
    ELSE IF pages[i] = PageFails THEN Exception
    ELSE ExtractPages(pages, i + 1, text \o pages[i])

\* the body of extract_pdf_text without its exception handler
ReadPdf(pdf_file) ==
    IF ~pdf_file.is_pdf THEN Exception
    ELSE ExtractPages(pdf_file.pages, 1, "")

\* the body of extract_text_file without its exception handler
ReadText(text_file) ==
    IF text_file.decoded = None THEN Exception ELSE text_file.decoded

\* agent.py: a failure is reported and None is returned
extract_pdf_text(pdf_file) ==
    LET r == ReadPdf(pdf_file) IN IF r = Exception THEN None ELSE r

extract_text_file(text_file) ==
    LET r == ReadText(text_file) IN IF r = Exception THEN None ELSE r

\* research_agent.py: no handler, a failure is raised to the caller
extract_pdf_text_raising(pdf_file) == ReadPdf(pdf_file)

extract_text_file_raising(text_file) == ReadText(text_file)

\* which extractor the start handler hands the file to
ChosenExtractor(file) ==
    IF ~Truthy(file) THEN "none"
    ELSE IF file.mime = "application/pdf" THEN "extract_pdf_text"
    ELSE "extract_text_file"

\* the start handler's "Extract content from uploaded file" block
LoadDocument(v, file) ==
    IF ~Truthy(file) THEN None
    ELSE LET r == IF file.mime = "application/pdf"
                  THEN IF v = "agent" THEN extract_pdf_text(file)
                       ELSE extract_pdf_text_raising(file)
                  ELSE IF v = "agent" THEN extract_text_file(file)
                       ELSE extract_text_file_raising(file)
         IN IF r = Exception THEN None ELSE r

\* ------------------------------------------------------------------------
\* What the stage capabilities can return (Runner.run(...).final_output)
\* ------------------------------------------------------------------------
GapOutputs ==
    { [type |-> "ResearchGaps", gaps |-> <<"g">>, improvements |-> <<"i">>,
       areas_to_expand |-> <<>>],
      Str("no structured gaps") }

PlanOutputs ==
    { [type |-> "ResearchPlan", topic |-> "t", search_queries |-> sq,
       focus_areas |-> <<"area">>] : sq \in {<<>>, <<"q1", "q2">>} }

ResearchOutputs == {None, Str(""), Str("findings")}

ReportOutputs ==
    { [type |-> "ResearchReport", title |-> "T", outline |-> <<>>,
       report |-> body, sources |-> <<>>, word_count |-> 2] :
      body \in {"# Title A", "# Title B"} }

ComparisonOutputs ==
    { [type |-> "Comparison", original_summary |-> "s",
       improvements_made |-> <<>>, quality_assessment |-> "q",
       depth_increase |-> "d", new_insights |-> <<>>] }

RunResult(out) == [type |-> "RunResult", final_output |-> out]

Facts == {"", "fact"}

Sources == {None, Str(""), Str("url")}

Timestamps == {"12:00:00"}

ConversationIds == {"0123456789abcdef", "fedcba9876543210"}

Steps == {"upload", "planning", "research", "report", "comparison"}

Agents == {"gap_analysis_agent", "planning_agent", "research_agent",
           "editor_agent", "comparison_agent"}

\* ------------------------------------------------------------------------
\* State
\* ------------------------------------------------------------------------
VARIABLES
    variant,           \* which of the two scripts the session runs
    session_state,     \* st.session_state
    uploaded_file,     \* the file_uploader widget's value
    research_query,    \* the text_input widget's value
    original_content,  \* the start handler's original_content
    extractor,         \* the extractor the last start handler called
    pc,                \* the await run_research is suspended at, or "idle"
    locals,            \* run_research's local variables
    calls,             \* the Runner.run calls of the current run, in order
    exit,              \* how the last run_research was left
    run,               \* number of runs started in the session
    tool_call,         \* the arguments of the save_important_fact call the
                       \* research agent in flight made last, or None
    download           \* the st.download_button on the page, or None

vars == <<variant, session_state, uploaded_file, research_query,
          original_content, extractor, pc, locals, calls, exit, run,
          tool_call, download>>

NoLocals ==
    [gap_result |-> None, gaps_data |-> None, research_plan |-> None,
     research_result |-> None, report_result |-> None,
     trace_group_id |-> None]

\* SESSION STATE INITIALIZATION
InitSessionState(cid) ==
    [conversation_id |-> cid,
     collected_facts |-> <<>>,
     research_done |-> FALSE,
     report_result |-> None,
     original_content |-> None,
     comparison_result |-> None,
     current_step |-> 0,
     step_completed |-> [s \in Steps |-> FALSE]]

\* a script that draws a new conversation_id at every execution
RegenerateConversationId(ss) ==
    { [ss EXCEPT !.conversation_id = cid] : cid \in ConversationIds }

\* "if 'conversation_id' not in st.session_state: ..." and the guarded
\* assignments after it, run by every execution of the script: the
\* session states it can leave (the id is random when it is drawn)
SessionStateInitialization(ss) ==
    IF "conversation_id" \in DOMAIN ss THEN {ss}
    ELSE { InitSessionState(cid) : cid \in ConversationIds }

Init ==
    /\ variant \in Variants
    /\ \E cid \in ConversationIds : session_state = InitSessionState(cid)
    /\ uploaded_file = None
    /\ research_query = ""
    /\ original_content = None
    /\ extractor = "none"
    /\ pc = "idle"
    /\ locals = NoLocals
    /\ calls = <<>>
    /\ exit = "none"
    /\ run = 0
    /\ tool_call = None
    /\ download = None

\* ------------------------------------------------------------------------
\* Capability calls
\* ------------------------------------------------------------------------
\* Runner.run(agent, prompt) is issued
RunnerRun(log, agent, prompt) ==
    Append(log, [agent |-> agent, prompt |-> prompt, status |-> "pending"])

\* a call that is left unresolved when the next one is issued
NotAwaited(log, status) == log

\* the await on the last issued call resolves with a result or a failure;
\* the prompt was the argument of the call and is gone with it
Resolved(log, status) ==
    [log EXCEPT ![Len(log)] = [agent |-> @.agent, status |-> status]]

\* the await on the editor's or the comparison's call resolves with a
\* result: the final_output the script keeps, in
\* st.session_state.report_result or st.session_state.comparison_result
Returned(log, out) ==
    [log EXCEPT ![Len(log)] =
        [agent |-> @.agent, status |-> "ok", final_output |-> out]]

InFlight == { i \in 1..Len(calls) : calls[i].status = "pending" }

Invoked(agent) == \E i \in 1..Len(calls) : calls[i].agent = agent

Outcome(agent) ==
    IF \E i \in 1..Len(calls) : calls[i].agent = agent
    THEN (CHOOSE c \in {calls[i] : i \in 1..Len(calls)} : c.agent = agent).status
    ELSE "not invoked"

\* "if uploaded_file: st.session_state.step_completed['upload'] = True",
\* run by every execution of the script
MarkUpload(ss, file) ==
    IF Truthy(file) THEN [ss EXCEPT !.step_completed["upload"] = TRUE] ELSE ss

\* step_completed[step] = True; research_agent.py has no such statements
MarkStep(ss, step) ==
    IF variant = "agent" THEN [ss EXCEPT !.step_completed[step] = TRUE] ELSE ss

\* ------------------------------------------------------------------------
\* Prompts
\* ------------------------------------------------------------------------
\* how an f-string renders a value
Format(x) ==
    IF x.type = "NoneType" THEN "None"
    ELSE IF x.type = "str" THEN x.val
    ELSE x.type

gap_prompt(content, query) ==
    [original_content |-> content.val, query |-> query]

\* a planning prompt that interpolates the gap result whatever it is
plan_prompt_without_placeholder(content, query, loc) ==
    IF Truthy(content)
    THEN [query |-> query, gaps |-> Format(loc.gap_result.final_output)]
    ELSE [query |-> query, gaps |-> "<comprehensive plan>"]

plan_prompt(content, query, loc) ==
    IF Truthy(content)
    THEN [query |-> query,
          gaps |-> IF Truthy(loc.gaps_data)
                   THEN Format(loc.gap_result.final_output)
                   ELSE "General research needed"]
    ELSE [query |-> query, gaps |-> "<comprehensive plan>"]

research_prompt(plan) ==
    [search_queries |-> plan.search_queries, focus_areas |-> plan.focus_areas]

report_prompt(query, research_result) ==
    [query |-> query,
     findings |-> IF Truthy(research_result)
                  THEN Format(research_result.final_output)
                  ELSE "Research completed"]

comparison_prompt(content, report_result) ==
    [original |-> content.val,
     new |-> IF hasattr(report_result.final_output, "report")
             THEN report_result.final_output.report
             ELSE Format(report_result.final_output)]

\* ------------------------------------------------------------------------
\* The results page
\* ------------------------------------------------------------------------
\* a download button that offers the title line of the report
DownloadButtonOfTitle(ss) ==
    IF Truthy(ss.report_result) /\ hasattr(ss.report_result, "report")
    THEN [type |-> "download_button", data |-> ss.report_result.title,
          mime |-> "text/markdown"]
    ELSE None

\* "if st.session_state.report_result: ... if hasattr(report, 'report'):
\* ... st.download_button(data=report.report, ..., mime='text/markdown')"
DownloadButton(ss) ==
    IF Truthy(ss.report_result) /\ hasattr(ss.report_result, "report")
    THEN [type |-> "download_button", data |-> ss.report_result.report,
          mime |-> "text/markdown"]
    ELSE None

\* DISPLAY RESULTS of agent.py: "if st.session_state.research_done:"
DisplayResults(ss) == IF ss.research_done THEN DownloadButton(ss) ELSE None

\* the page an execution of the script leaves when run_research was not
\* called or was left by a failure: agent.py ends with DISPLAY RESULTS,
\* research_agent.py renders results nowhere but in run_research
PageAfterScript(ss) ==
    IF variant = "agent" THEN DisplayResults(ss) ELSE None

\* the page an execution leaves when run_research ran to its last stage:
\* research_agent.py renders tab2 before it returns
PageAfterRun(ss) ==
    IF variant = "agent" THEN DisplayResults(ss) ELSE DownloadButton(ss)

\* ------------------------------------------------------------------------
\* The user's inputs
\* ------------------------------------------------------------------------
\* st.file_uploader(type=["pdf", "txt"]) takes a file, and the script reruns
Upload(file) ==
    /\ pc = "idle"
    /\ file.name_ext \in AcceptedExtensions
    /\ uploaded_file # file
    /\ uploaded_file' = file
    /\ \E ss \in SessionStateInitialization(session_state) :
          session_state' = MarkUpload(ss, file)
    /\ download' = PageAfterScript(session_state')
    /\ UNCHANGED <<tool_call, variant, research_query, original_content, extractor, pc,
                   locals, calls, exit, run>>

\* the user removes the file from the uploader
RemoveUpload ==
    /\ pc = "idle"
    /\ uploaded_file # None
    /\ uploaded_file' = None
    /\ session_state' \in SessionStateInitialization(session_state)
    /\ download' = PageAfterScript(session_state')
    /\ UNCHANGED <<tool_call, variant, research_query, original_content,
                   extractor, pc, locals, calls, exit, run>>

\* st.text_input
EnterQuery(q) ==
    /\ pc = "idle"
    /\ research_query # q
    /\ research_query' = q
    /\ \E ss \in SessionStateInitialization(session_state) :
          session_state' = MarkUpload(ss, uploaded_file)
    /\ download' = PageAfterScript(session_state')
    /\ UNCHANGED <<tool_call, variant, uploaded_file, original_content, extractor, pc,
                   locals, calls, exit, run>>

\* ------------------------------------------------------------------------
\* run_research
\* ------------------------------------------------------------------------
\* a start that clears only the done flag
ResetRunKeepingResults(ss) == [ss EXCEPT !.research_done = FALSE]

\* a start that forgets to clear the comparison
ResetRunKeepingComparison(ss) ==
    [ss EXCEPT !.collected_facts = <<>>,
               !.research_done = FALSE,
               !.report_result = None]

\* a start that also marks every step as not completed
ResetRunClearingFlags(ss) ==
    [ss EXCEPT !.collected_facts = <<>>,
               !.research_done = FALSE,
               !.report_result = None,
               !.comparison_result = None,
               !.step_completed = [s \in Steps |-> FALSE]]

\* the four assignments that open run_research
ResetRun(ss) ==
    [ss EXCEPT !.collected_facts = <<>>,
               !.research_done = FALSE,
               !.report_result = None,
               !.comparison_result = None]

\* a failure of GapAnalysis, Planning, Researching or Drafting: agent.py
\* reports it and returns; research_agent.py lets it reach the start
\* handler, whose except clause sets research_done
\* a failure handler that also clears the progress flags
StageFailedClearingFlags(ss) ==
    [ss EXCEPT !.step_completed = [s \in Steps |-> FALSE],
               !.research_done = (variant # "agent")]

StageFailed(ss) ==
    IF variant = "agent" THEN ss ELSE [ss EXCEPT !.research_done = TRUE]

StageFailedExit == IF variant = "agent" THEN "returned early" ELSE "raised"

\* the last statement of run_research
Finish(ss) == [ss EXCEPT !.research_done = TRUE]

\* st.button("Start Research", disabled=not research_query)
start_button_enabled == research_query # ""

\* "if start_button:" -- the handler loads the document and runs
\* run_research up to its first await.  The button is disabled by an
\* empty query only: a click while run_research is suspended at an await
\* is taken too, and the script is executed again from its first line,
\* which leaves the run that was executing where it was
StartButton ==
    /\ start_button_enabled
    /\ run < MaxRuns
    /\ \E ss \in SessionStateInitialization(session_state) :
       LET content == LoadDocument(variant, uploaded_file)
           ss0 == MarkUpload(ss, uploaded_file)
           ss1 == IF variant = "agent"
                  THEN [ss0 EXCEPT !.original_content = content] ELSE ss0
       IN /\ original_content' = content
          /\ extractor' = ChosenExtractor(uploaded_file)
          /\ session_state' = ResetRun(ss1)
          \* with trace("Enhanced Research", group_id=...conversation_id)
          /\ locals' = [NoLocals EXCEPT
                          !.trace_group_id = Str(ss1.conversation_id)]
          /\ IF Truthy(content)
             THEN /\ calls' = RunnerRun(<<>>, "gap_analysis_agent",
                                        gap_prompt(content, research_query))
                  /\ pc' = "gap_analysis"
             ELSE /\ calls' = RunnerRun(<<>>, "planning_agent",
                                 plan_prompt(content, research_query, NoLocals))
                  /\ pc' = "planning"
    /\ exit' = "running"
    /\ run' = run + 1
    /\ download' = None
    /\ tool_call' = None
    /\ UNCHANGED <<variant, uploaded_file, research_query>>

\* STEP 1: "gap_result = await Runner.run(gap_analysis_agent, gap_prompt)"
GapAnalysisReturns(out) ==
    /\ pc = "gap_analysis"
    /\ LET loc == [locals EXCEPT
                     !.gap_result = RunResult(out),
                     !.gaps_data = IF hasattr(out, "gaps") THEN out ELSE None]
       IN /\ locals' = loc
          /\ calls' = RunnerRun(Resolved(calls, "ok"), "planning_agent",
                          plan_prompt(original_content, research_query, loc))
    /\ pc' = "planning"
    /\ UNCHANGED <<download, tool_call, variant, session_state, uploaded_file, research_query,
                   original_content, extractor, exit, run>>

GapAnalysisFails ==
    /\ pc = "gap_analysis"
    /\ calls' = Resolved(calls, "error")
    /\ session_state' = StageFailed(session_state)
    /\ exit' = StageFailedExit
    /\ pc' = "idle"
    /\ locals' = NoLocals
    /\ download' = PageAfterScript(session_state')
    /\ UNCHANGED <<tool_call, variant, uploaded_file, research_query, original_content,
                   extractor, run>>

\* STEP 2: "plan_result = await Runner.run(planning_agent, plan_prompt)"
PlanningReturns(out) ==
    /\ pc = "planning"
    /\ locals' = [locals EXCEPT !.research_plan = out]
    /\ session_state' = MarkStep(session_state, "planning")
    /\ calls' = RunnerRun(Resolved(calls, "ok"), "research_agent",
                          research_prompt(out))
    /\ pc' = "research"
    /\ UNCHANGED <<download, tool_call, variant, uploaded_file, research_query, original_content,
                   extractor, exit, run>>

\* a planning failure that is reported without leaving run_research
PlanningFailsAndGoesOn ==
    /\ pc = "planning"
    /\ calls' = RunnerRun(Resolved(calls, "error"), "research_agent",
                          [search_queries |-> <<>>, focus_areas |-> <<>>])
    /\ pc' = "research"
    /\ UNCHANGED <<download, tool_call, variant, session_state, uploaded_file, research_query,
                   original_content, extractor, locals, exit, run>>

PlanningFails ==
    /\ pc = "planning"
    /\ calls' = Resolved(calls, "error")
    /\ session_state' = StageFailed(session_state)
    /\ exit' = StageFailedExit
    /\ pc' = "idle"
    /\ locals' = NoLocals
    /\ download' = PageAfterScript(session_state')
    /\ UNCHANGED <<tool_call, variant, uploaded_file, research_query, original_content,
                   extractor, run>>

\* a tool that puts the newest fact first
save_important_fact_first(facts, fact, source, now) ==
    <<[fact |-> fact,
       source |-> IF Truthy(source) THEN source.val ELSE "Not specified",
       timestamp |-> now]>> \o facts

\* a tool that stores the source argument without a default
save_important_fact_without_default(facts, fact, source, now) ==
    Append(facts, [fact |-> fact,
                   source |-> IF source = None THEN "None" ELSE source.val,
                   timestamp |-> now])

\* CUSTOM TOOLS: save_important_fact, a tool of research_agent only
save_important_fact(facts, fact, source, now) ==
    Append(facts, [fact |-> fact,
                   source |-> IF Truthy(source) THEN source.val
                              ELSE "Not specified",
                   timestamp |-> now])

\* the tool given to every agent, not to research_agent only
SaveImportantFactByAnyAgent(fact, source, now) ==
    /\ pc # "idle"
    /\ Len(session_state.collected_facts) < MaxFacts
    /\ session_state' =
         [session_state EXCEPT
            !.collected_facts = save_important_fact(@, fact, source, now)]
    /\ tool_call' = [type |-> "save_important_fact", fact |-> fact,
                     source |-> source]
    /\ UNCHANGED <<download, variant, uploaded_file, research_query, original_content,
                   extractor, pc, locals, calls, exit, run>>

\* the research agent calls its tool while its Runner.run is in flight
SaveImportantFact(fact, source, now) ==
    /\ pc = "research"
    /\ Len(session_state.collected_facts) < MaxFacts
    /\ session_state' =
         [session_state EXCEPT
            !.collected_facts = save_important_fact(@, fact, source, now)]
    /\ tool_call' = [type |-> "save_important_fact", fact |-> fact,
                     source |-> source]
    /\ UNCHANGED <<download, variant, uploaded_file, research_query, original_content,
                   extractor, pc, locals, calls, exit, run>>

\* STEP 3: "research_result = await Runner.run(research_agent, research_prompt)"
ResearchReturns(out) ==
    /\ pc = "research"
    /\ locals' = [locals EXCEPT !.research_result = RunResult(out)]
    /\ session_state' = MarkStep(session_state, "research")
    /\ calls' = RunnerRun(Resolved(calls, "ok"), "editor_agent",
                          report_prompt(research_query, RunResult(out)))
    /\ pc' = "report"
    /\ tool_call' = None
    /\ UNCHANGED <<download, variant, uploaded_file, research_query, original_content,
                   extractor, exit, run>>

ResearchFails ==
    /\ pc = "research"
    /\ calls' = Resolved(calls, "error")
    /\ session_state' = StageFailed(session_state)
    /\ exit' = StageFailedExit
    /\ pc' = "idle"
    /\ locals' = NoLocals
    /\ tool_call' = None
    /\ download' = PageAfterScript(session_state')
    /\ UNCHANGED <<variant, uploaded_file, research_query, original_content,
                   extractor, run>>

\* STEP 4: "report_result = await Runner.run(editor_agent, report_prompt)",
\* then STEP 5's call when there is original content, else the end of the run
ReportReturns(out) ==
    /\ pc = "report"
    /\ LET ss == MarkStep([session_state EXCEPT !.report_result = out],
                          "report")
       IN IF Truthy(original_content)
          THEN /\ session_state' = ss
               /\ locals' = [locals EXCEPT !.report_result = RunResult(out)]
               /\ calls' = RunnerRun(Returned(calls, out), "comparison_agent",
                              comparison_prompt(original_content,
                                                RunResult(out)))
               /\ pc' = "comparison"
               /\ exit' = exit
               /\ download' = download
          ELSE /\ session_state' = Finish(ss)
               /\ locals' = NoLocals
               /\ calls' = Returned(calls, out)
               /\ pc' = "idle"
               /\ exit' = "completed"
               /\ download' = PageAfterRun(Finish(ss))
    /\ UNCHANGED <<tool_call, variant, uploaded_file, research_query, original_content,
                   extractor, run>>

\* a report failure that also throws the collected facts away
ReportFailsDroppingFacts ==
    /\ pc = "report"
    /\ calls' = Resolved(calls, "error")
    /\ session_state' =
         [StageFailed(session_state) EXCEPT !.collected_facts = <<>>]
    /\ exit' = StageFailedExit
    /\ pc' = "idle"
    /\ locals' = NoLocals
    /\ download' = PageAfterScript(session_state')
    /\ UNCHANGED <<tool_call, variant, uploaded_file, research_query, original_content,
                   extractor, run>>

ReportFails ==
    /\ pc = "report"
    /\ calls' = Resolved(calls, "error")
    /\ session_state' = StageFailed(session_state)
    /\ exit' = StageFailedExit
    /\ pc' = "idle"
    /\ locals' = NoLocals
    /\ download' = PageAfterScript(session_state')
    /\ UNCHANGED <<tool_call, variant, uploaded_file, research_query, original_content,
                   extractor, run>>

\* STEP 5: "comparison_result = await Runner.run(comparison_agent, ...)"
ComparisonReturns(out) ==
    /\ pc = "comparison"
    /\ session_state' =
         Finish(MarkStep([session_state EXCEPT !.comparison_result = out],
                         "comparison"))
    /\ calls' = Returned(calls, out)
    /\ exit' = "completed"
    /\ pc' = "idle"
    /\ locals' = NoLocals
    /\ download' = PageAfterRun(session_state')
    /\ UNCHANGED <<tool_call, variant, uploaded_file, research_query, original_content,
                   extractor, run>>

\* a comparison failure that nothing catches and that ends the script
ComparisonFailsAndEscapes ==
    /\ pc = "comparison"
    /\ calls' = Resolved(calls, "error")
    /\ pc' = "crashed"
    /\ UNCHANGED <<download, tool_call, variant, session_state, uploaded_file,
                   research_query, original_content, extractor, locals,
                   exit, run>>

\* agent.py reports the failure and goes on to the last statement of
\* run_research; research_agent.py lets it reach the start handler
ComparisonFails ==
    /\ pc = "comparison"
    /\ calls' = Resolved(calls, "error")
    /\ session_state' = Finish(session_state)
    /\ exit' = IF variant = "agent" THEN "completed" ELSE "raised"
    /\ pc' = "idle"
    /\ locals' = NoLocals
    /\ download' = PageAfterScript(session_state')
    /\ UNCHANGED <<tool_call, variant, uploaded_file, research_query, original_content,
                   extractor, run>>

\* ------------------------------------------------------------------------
\* The two scripts side by side
\* ------------------------------------------------------------------------
\* the capability whose return sets step_completed[step] in agent.py
StageAgent(step) ==
    CASE step = "planning" -> "planning_agent"
      [] step = "research" -> "research_agent"
      [] step = "report" -> "editor_agent"
      [] step = "comparison" -> "comparison_agent"

\* st.session_state as the run_research of script v and its start handler
\* leave it at the end of the first run of a session, given the document
\* the handler loaded, the outcome of each stage the run invoked and what
\* the stages returned and recorded.  agent.py sets a flag after each
\* stage, returns early from a failure of any stage but the comparison
\* and keeps the document; research_agent.py sets no flag and lets every
\* failure reach the handler, which sets research_done
SessionStateAfterRun(v) ==
    LET ok(agent) == Outcome(agent) = "ok"
        returned_early ==
            \E agent \in Agents \ {"comparison_agent"} :
               Outcome(agent) = "error"
    IN [conversation_id |-> session_state.conversation_id,
        collected_facts |-> session_state.collected_facts,
        research_done |-> IF v = "agent" THEN ~returned_early ELSE TRUE,
        report_result |->
            IF ok("editor_agent")
            THEN (CHOOSE c \in {calls[i] : i \in 1..Len(calls)} :
                     c.agent = "editor_agent").final_output
            ELSE None,
        original_content |-> IF v = "agent" THEN original_content ELSE None,
        comparison_result |->
            IF ok("comparison_agent")
            THEN (CHOOSE c \in {calls[i] : i \in 1..Len(calls)} :
                     c.agent = "comparison_agent").final_output
            ELSE None,
        current_step |-> 0,
        step_completed |->
            [s \in Steps |->
                IF s = "upload" THEN session_state.step_completed[s]
                ELSE v = "agent" /\ ok(StageAgent(s))]]

\* ------------------------------------------------------------------------
\* Specification
\* ------------------------------------------------------------------------
Next ==
    \/ \E file \in Files : Upload(file)
    \/ RemoveUpload
    \/ \E q \in Topics : EnterQuery(q)
    \/ StartButton
    \/ \E out \in GapOutputs : GapAnalysisReturns(out)
    \/ GapAnalysisFails
    \/ \E out \in PlanOutputs : PlanningReturns(out)
    \/ PlanningFails
    \/ \E fact \in Facts, source \in Sources, now \in Timestamps :
          SaveImportantFact(fact, source, now)
    \/ \E out \in ResearchOutputs : ResearchReturns(out)
    \/ ResearchFails
    \/ \E out \in ReportOutputs : ReportReturns(out)
    \/ ReportFails
    \/ \E out \in ComparisonOutputs : ComparisonReturns(out)
    \/ ComparisonFails

Spec == Init /\ [][Next]_vars

\* every Runner.run call that is awaited resolves, with a result or a failure
Resolve ==
    \/ \E out \in GapOutputs : GapAnalysisReturns(out)
    \/ GapAnalysisFails
    \/ \E out \in PlanOutputs : PlanningReturns(out)
    \/ PlanningFails
    \/ \E out \in ResearchOutputs : ResearchReturns(out)
    \/ ResearchFails
    \/ \E out \in ReportOutputs : ReportReturns(out)
    \/ ReportFails
    \/ \E out \in ComparisonOutputs : ComparisonReturns(out)
    \/ ComparisonFails

FairSpec == Init /\ [][Next]_vars /\ WF_vars(Resolve)

TypeOK ==
    /\ variant \in Variants
    /\ pc \in {"idle", "gap_analysis", "planning", "research", "report",
               "comparison"}
    /\ run \in 0..MaxRuns
    /\ exit \in {"none", "running", "returned early", "raised", "completed"}
    /\ Len(session_state.collected_facts) <= MaxFacts

\* ------------------------------------------------------------------------
\* Properties
\* ------------------------------------------------------------------------
FullOrder == <<"gap_analysis_agent", "planning_agent", "research_agent",
               "editor_agent", "comparison_agent">>

TopicOnlyOrder == <<"planning_agent", "research_agent", "editor_agent">>

StageOrder == IF Truthy(original_content) THEN FullOrder ELSE TopicOnlyOrder

RunEnded == pc = "idle" /\ run > 0

AllInvokedSucceeded == \A i \in 1..Len(calls) : calls[i].status = "ok"

\* C1: the capabilities a run has invoked are a prefix of the fixed order
\* GapAnalysis, Planning, Researching, Drafting, Comparing (the first and
\* the last only with a reference document), and every call before the
\* last one returned successfully; so nothing is invoked after a failure.
C1_StagesInOrderAfterSuccess ==
    /\ Len(calls) <= Len(StageOrder)
    /\ \A i \in 1..Len(calls) :
          /\ calls[i].agent = StageOrder[i]
          /\ \A j \in 1..(i - 1) : calls[j].status = "ok"
    /\ (Invoked("gap_analysis_agent") \/ Invoked("comparison_agent"))
          => original_content # None

C1_Witness ==
    /\ RunEnded
    /\ Len(calls) = 2
    /\ calls[1].agent = "gap_analysis_agent"
    /\ calls[2].status = "error"

\* C2: when the comparison call fails after a successful report call, the
\* run ends with step_completed["report"] true, report_result the report
\* the editor returned, comparison_result None and research_done true, and
\* the failure does not leave run_research.
C2_ComparisonFailureTolerated ==
    [][(pc = "comparison" /\ pc' = "idle"
          /\ calls'[Len(calls')].status = "error")
       => /\ session_state'.step_completed["report"]
          /\ session_state'.report_result = locals.report_result.final_output
          /\ session_state'.report_result # None
          /\ session_state'.comparison_result = None
          /\ session_state'.research_done
          /\ exit' = "completed"]_vars

\* C3: a run started without a reference document invokes neither the gap
\* analysis nor the comparison, and step_completed["comparison"] is not
\* true during or at the end of it, in every run of the session.
C3_NoDocumentNoComparison ==
    (run > 0 /\ extractor = "none")
       => /\ ~Invoked("gap_analysis_agent")
          /\ ~Invoked("comparison_agent")
          /\ ~session_state.step_completed["comparison"]

\* C4: when the loader returned a text and every capability succeeded, the
\* finished run invoked gap analysis first, planning after it, comparing
\* after drafting, and left a comparison_result.
C4_DocumentRunHasGapsAndComparison ==
    (RunEnded /\ exit = "completed" /\ original_content # None
        /\ AllInvokedSucceeded)
       => /\ Len(calls) = 5
          /\ calls[1].agent = "gap_analysis_agent"
          /\ calls[2].agent = "planning_agent"
          /\ calls[4].agent = "editor_agent"
          /\ calls[5].agent = "comparison_agent"
          /\ session_state.comparison_result # None

\* C5: from the start of a run on, the facts, the report and the
\* comparison of the run before are gone: the Fact Sink is empty until the
\* research call is issued, report_result is None until the editor call
\* returns and comparison_result is None until the comparison call returns.
C5_RunStartsFromCleanResults ==
    /\ pc \in {"gap_analysis", "planning"}
          => session_state.collected_facts = <<>>
    /\ pc \in {"gap_analysis", "planning", "research", "report"}
          => session_state.report_result = None
    /\ pc # "idle" => /\ session_state.comparison_result = None
                      /\ ~session_state.research_done

C5_Witness ==
    /\ run = 2
    /\ pc = "planning"
    /\ session_state.step_completed["research"]
    /\ session_state.step_completed["report"]

\* C6: when the research call of a run failed, the run has invoked neither
\* the editor nor the comparison and ends with step_completed["report"]
\* false, in every run of the session.
C6_ResearchFailureLeavesNoReport ==
    (RunEnded /\ Outcome("research_agent") = "error")
       => /\ ~Invoked("editor_agent")
          /\ ~Invoked("comparison_agent")
          /\ ~session_state.step_completed["report"]

\* C7: a run ends with research_done true exactly when its editor call
\* succeeded and the comparison was skipped or attempted.
C7_DoneIffReportDrafted ==
    RunEnded =>
       (session_state.research_done
          <=> /\ Outcome("editor_agent") = "ok"
              /\ \/ ~Truthy(original_content)
                 \/ Outcome("comparison_agent") \in {"ok", "error"})

\* C8: at most one capability call of a run is unresolved at any time.
C8_OneCallInFlight == Cardinality(InFlight) <= 1

C8_Witness ==
    /\ pc = "comparison"
    /\ Len(calls) = 5
    /\ InFlight = {5}

\* the file is one on which the extractor the handler chooses fails: a PDF
\* that cannot be opened or has a failing page, or bytes that are not UTF-8
ExtractionFails(file) ==
    /\ Truthy(file)
    /\ IF file.mime = "application/pdf"
       THEN \/ ~file.is_pdf
            \/ \E i \in 1..Len(file.pages) : file.pages[i] = PageFails
       ELSE file.decoded = None

\* C9: when the extraction of the uploaded document fails, the run gets no
\* text at all (None, not the text of the pages read so far), it is still
\* started, and it takes the topic-only path: planning, research and
\* drafting, never gap analysis or comparison.
C9_LoadFailureIsNoDocument ==
    /\ (pc # "idle" /\ ExtractionFails(uploaded_file))
          => original_content = None
    /\ (run > 0 /\ extractor # "none" /\ original_content = None)
          => /\ Len(calls) >= 1
             /\ Len(calls) <= 3
             /\ \A i \in 1..Len(calls) : calls[i].agent = TopicOnlyOrder[i]
             /\ (RunEnded /\ AllInvokedSucceeded) => Len(calls) = 3

C9_Witness ==
    /\ pc = "report"
    /\ ExtractionFails(uploaded_file)
    /\ uploaded_file.is_pdf
    /\ Len(calls) = 3

\* C10: a document whose declared media type is neither PDF nor plain text
\* is handed to no extractor, and its run goes as a run without document.
C10_OtherMediaTypeRejected ==
    (pc # "idle" /\ Truthy(uploaded_file)
        /\ uploaded_file.mime \notin {"application/pdf", "text/plain"})
       => /\ extractor = "none"
          /\ original_content = None
          /\ ~Invoked("gap_analysis_agent")
          /\ ~Invoked("comparison_agent")

\* C11: comparison_result is set only when the current run has a reference
\* document, its editor call succeeded (report_result is set) and its
\* comparison call succeeded; a gap-analysis result exists only when the
\* current run has a reference document and its gap-analysis call
\* succeeded.
C11_ResultsOnlyWithDocumentAndSuccess ==
    /\ session_state.comparison_result # None
          => /\ Truthy(original_content)
             /\ session_state.report_result # None
             /\ Outcome("editor_agent") = "ok"
             /\ Outcome("comparison_agent") = "ok"
    /\ locals.gap_result # None
          => /\ Truthy(original_content)
             /\ Outcome("gap_analysis_agent") = "ok"

C11_Witness ==
    /\ run = 2
    /\ session_state.comparison_result # None
    /\ RunEnded

\* C12: no step of a run sets a step_completed flag back to false.
C12_FlagsMonotonicWithinRun ==
    [][\A s \in Steps :
          (session_state.step_completed[s] /\ run' = run)
             => session_state'.step_completed[s]]_vars

C12_Witness ==
    /\ RunEnded
    /\ exit = "returned early"
    /\ Outcome("research_agent") = "error"
    /\ session_state.step_completed["planning"]

\* C13: a step either leaves the Fact Sink alone, or appends exactly one
\* entry after the unchanged existing ones, or is the start of a run and
\* empties it.
C13_FactSinkAppendOnly ==
    [][LET old == session_state.collected_facts
           new == session_state'.collected_facts
       IN \/ new = old
          \/ /\ Len(new) = Len(old) + 1
             /\ SubSeq(new, 1, Len(old)) = old
          \/ /\ new = <<>>
             /\ run' = run + 1]_vars

C13_Witness ==
    /\ Len(session_state.collected_facts) = 2
    /\ session_state.collected_facts[1] # session_state.collected_facts[2]

\* C14: the Fact Sink changes only while the research call is in flight,
\* or at the start of a run (where it is emptied); after the research call
\* has returned it stays as it is until the next start.
C14_FactsWrittenOnlyDuringResearch ==
    [][session_state'.collected_facts # session_state.collected_facts
         => \/ pc = "research" /\ pc' = "research"
            \/ /\ run' = run + 1
               /\ session_state'.collected_facts = <<>>]_vars

C14_Witness ==
    /\ pc = "comparison"
    /\ Len(session_state.collected_facts) = 2

\* C16: the step in which the editor call fails leaves the Fact Sink and
\* the step_completed flags as they were, so the facts collected during
\* research are still there at the end of the run and, in agent.py (the
\* script that sets the flags), step_completed["planning"] and
\* step_completed["research"] are still true.
C16_DraftingFailureKeepsArtifacts ==
    [][(pc = "report" /\ pc' = "idle"
          /\ calls'[Len(calls')].status = "error")
       => /\ session_state'.collected_facts = session_state.collected_facts
          /\ session_state'.step_completed = session_state.step_completed
          /\ variant = "agent"
                => /\ session_state'.step_completed["planning"]
                   /\ session_state'.step_completed["research"]]_vars

C16_Witness ==
    /\ RunEnded
    /\ variant = "agent"
    /\ Outcome("editor_agent") = "error"
    /\ Len(session_state.collected_facts) = 2
    /\ session_state.step_completed["research"]
    /\ ~session_state.step_completed["report"]

\* C18: a plan without search queries is a planning failure: the research
\* capability is never invoked with an empty list of search queries.
C18_EmptyPlanIsPlanningFailure ==
    \A i \in 1..Len(calls) :
       (calls[i].agent = "research_agent" /\ calls[i].status = "pending")
          => /\ calls[i].prompt.search_queries # <<>>
             /\ calls[i - 1].status = "ok"

\* C19: every entry of the Fact Sink has a non-empty fact.
C19_NoEmptyFact ==
    \A i \in 1..Len(session_state.collected_facts) :
       session_state.collected_facts[i].fact # ""

\* C17: the conversation_id of the session never changes, and the trace
\* that groups the capability calls of every run carries that id.
C17_OneConversationIdPerSession ==
    /\ [][session_state'.conversation_id = session_state.conversation_id]_vars
    /\ [](pc # "idle"
            => locals.trace_group_id = Str(session_state.conversation_id))

C17_Witness ==
    /\ run = 2
    /\ pc = "comparison"
    /\ locals.trace_group_id = Str(session_state.conversation_id)

LastFact == session_state.collected_facts[Len(session_state.collected_facts)]

\* C20 as stated: the entry a save_important_fact call adds holds the
\* source exactly as given when one is given, whatever its value, and
\* "Not specified" when it is omitted.
C20_SourceStoredAsGiven ==
    tool_call # None
       => /\ LastFact.fact = tool_call.fact
          /\ LastFact.source = IF tool_call.source = None
                               THEN "Not specified"
                               ELSE tool_call.source.val

\* C20 as amended: the entry holds the source as given when a non-empty
\* source is given, and "Not specified" when the source is omitted or is
\* the empty string.
C20_SourceStoredOrDefaulted ==
    tool_call # None
       => /\ LastFact.fact = tool_call.fact
          /\ LastFact.source =
                IF tool_call.source = None \/ tool_call.source = Str("")
                THEN "Not specified"
                ELSE tool_call.source.val

C20_Witness ==
    /\ tool_call # None
    /\ tool_call.source = Str("")
    /\ Len(session_state.collected_facts) = 2
    /\ LastFact.source = "Not specified"
    /\ session_state.collected_facts[1].source = "url"

\* C15: given that every awaited capability call resolves, every run ends;
\* it ends by reaching the last statement of run_research, by an early
\* return or by an exception the start handler catches; after it a new run
\* can be started, and whatever the earlier runs did, the first capability
\* a run invokes is decided by the document of that run alone.
C15_RunsEndAndSessionStaysUsable ==
    /\ (pc # "idle") ~> (pc = "idle")
    /\ [](RunEnded => exit \in {"completed", "returned early", "raised"})
    /\ []((pc = "idle" /\ research_query # "" /\ run < MaxRuns)
             => ENABLED StartButton)
    /\ [](pc # "idle"
            => calls[1].agent =
                  IF Truthy(LoadDocument(variant, uploaded_file))
                  THEN "gap_analysis_agent" ELSE "planning_agent")

C15_Witness ==
    /\ run = 2
    /\ RunEnded
    /\ exit = "raised"
    /\ Outcome("comparison_agent") = "error"

\* the report the editor's call of the current run returned, or None
DraftedReport ==
    IF \E i \in 1..Len(calls) :
          calls[i].agent = "editor_agent" /\ calls[i].status = "ok"
    THEN (CHOOSE c \in {calls[i] : i \in 1..Len(calls)} :
             c.agent = "editor_agent").final_output
    ELSE None

\* C21: the page offers the download only when a report is stored, and
\* the data it offers is the report field of the ResearchReport that the
\* editor's call of the current run returned: unchanged, and never the
\* report of an earlier run.
C21_DownloadIsCurrentReport ==
    download # None
       => /\ Truthy(session_state.report_result)
          /\ DraftedReport # None
          /\ download.data = DraftedReport.report
          /\ download.mime = "text/markdown"

C21_Witness ==
    /\ run = 2
    /\ RunEnded
    /\ download # None
    /\ download.data = "# Title B"
    /\ Len(session_state.collected_facts) > 0

\* C22: a run is started only when no run of the session is in flight:
\* while run_research is suspended at an await the start action is not
\* taken, so a run is never replaced or joined by another one before it
\* has ended.
C22_StartOnlyWhenNoRunInFlight ==
    [][run' # run => pc = "idle" /\ InFlight = {}]_vars

\* C23: the prompt of the editor's call embeds the textual output of the
\* research stage when there is one, and the literal "Research completed"
\* when the research call returned with no textual output (final_output
\* absent or empty).
C23_DraftingPromptEmbedsFindingsOrPlaceholder ==
    pc = "report"
       => LET out == locals.research_result.final_output
          IN calls[Len(calls)].prompt.findings =
                IF Truthy(out) THEN out.val ELSE "Research completed"

\* C24: when the gap-analysis call returns a result that has no gaps
\* field, the run goes on: no gaps are kept, and the planning call is
\* issued next, with a prompt that carries "General research needed" in
\* the place of the gaps.
C24_GapResultWithoutGapsGoesOn ==
    [][(/\ pc = "gap_analysis"
        /\ run' = run
        /\ calls'[1].status = "ok"
        /\ ~hasattr(locals'.gap_result.final_output, "gaps"))
          => /\ pc' = "planning"
             /\ exit' = "running"
             /\ locals'.gaps_data = None
             /\ Len(calls') = 2
             /\ calls'[2].agent = "planning_agent"
             /\ calls'[2].status = "pending"
             /\ calls'[2].prompt.gaps = "General research needed"]_vars

C24_Witness ==
    /\ pc = "planning"
    /\ Outcome("gap_analysis_agent") = "ok"
    /\ locals.gap_result.final_output = Str("no structured gaps")
    /\ calls[2].prompt.gaps = "General research needed"

\* the five fields of the session state that a run leaves behind
Observed(ss) ==
    [collected_facts |-> ss.collected_facts,
     report_result |-> ss.report_result,
     comparison_result |-> ss.comparison_result,
     research_done |-> ss.research_done,
     step_completed |-> ss.step_completed]

\* the session state is what the script that runs leaves after a first run
FirstRunEndsAsComputed ==
    (RunEnded /\ run = 1) => session_state = SessionStateAfterRun(variant)

\* C25: agent.py and research_agent.py are equivalent: with the same
\* topic, the same loaded document and the same outcome of every stage,
\* the stages invoked are the same sequence, and the run ends with the
\* collected_facts, report_result, comparison_result, research_done and
\* step_completed that the other script would end with too.
C25_VariantsEquivalent ==
    (RunEnded /\ run = 1)
       => /\ \A i \in 1..Len(calls) : calls[i].agent = StageOrder[i]
          /\ \A v \in Variants :
                Observed(session_state) = Observed(SessionStateAfterRun(v))

\* C26: starting a run leaves step_completed as it was: the start resets
\* collected_facts, research_done, report_result and comparison_result
\* and none of the five flags, so a flag that an earlier run or an upload
\* set is still set when the next run starts and at every step after it.
C26_StartKeepsCompletionFlags ==
    [][/\ run' # run
          => /\ session_state'.step_completed = session_state.step_completed
             /\ session_state'.collected_facts = <<>>
             /\ ~session_state'.research_done
             /\ session_state'.report_result = None
             /\ session_state'.comparison_result = None
       /\ \A s \in Steps :
             session_state.step_completed[s]
                => session_state'.step_completed[s]]_vars

C26_Witness ==
    /\ run = 2
    /\ pc = "planning"
    /\ Len(calls) = 1
    /\ session_state.step_completed["upload"]
    /\ session_state.step_completed["report"]
    /\ session_state.step_completed["comparison"]
    /\ uploaded_file = None

====
